---- MODULE Spec2Model ----
(***************************************************************************)
(* Service Manager (SM) of src/src/video_core/textures/convert.h:          *)
(* the ServiceManager registry (RegisterService, GetServicePort,           *)
(* ConnectToService, InstallInterfaces) and the wire-facing SM service     *)
(* (Initialize, GetService).                                               *)
(*                                                                         *)
(* A service name is a sequence of bytes (0 is the NUL terminator).  A     *)
(* kernel object is a pair <<type, i>>: ServerPort i and ClientPort i are  *)
(* the two ends made by the i-th CreatePortPair call; a ClientSession i is *)
(* a session opened through ClientPort i.                                  *)
(***************************************************************************)
EXTENDS Integers, Sequences, FiniteSets, TLC

VARIABLES
    registered_services,  \* ServiceManager::registered_services: name -> client port index
    ports,                \* kernel port pairs, in creation order
    acceptors,            \* the server ports RegisterService has returned to its callers
    sm_interface,         \* ServiceManager::sm_interface (weak_ptr<SM>): 0 expired, n the n-th SM
    controller_interface, \* ServiceManager::controller_interface: 0 null, n the n-th Controller
    sm_created,           \* number of SM objects constructed so far
    aborted,              \* the fatal assertion has fired
    port_faults,          \* whether the port primitive may fail a connect for another reason
    last,                 \* the last completed call: operation, arguments and result
    pc, t_name, t_max_sessions, t_port, t_result,  \* per-thread position and locals of RegisterService
    t_op                  \* the operation each thread is running

vars == <<registered_services, ports, acceptors, sm_interface, controller_interface, sm_created,
          aborted, port_faults, last, pc, t_name, t_max_sessions, t_port, t_result, t_op>>

registry_vars == <<registered_services, ports, acceptors, sm_interface, controller_interface,
                   sm_created, aborted, port_faults>>

thread_vars == <<pc, t_name, t_max_sessions, t_port, t_result, t_op>>

----------------------------------------------------------------------------
(* Bounds *)

\* largest max_sessions passed to RegisterService
MaxSessions == 1

\* longest name passed to the in-process API
MaxNameLen == 9

(* Program constants *)

\* name.size() > 8
MaxServiceNameLen == 8

\* std::array<char, 9>
NameBufSize == 9

\* ServiceFramework("sm:", 4)
SmMaxSessions == 4

NUL == 0

\* "sm:"
SM_NAME == <<115, 109, 58>>

----------------------------------------------------------------------------
(* Result codes *)

RESULT_SUCCESS == "RESULT_SUCCESS"
ERR_SERVICE_NOT_REGISTERED == "ERR_SERVICE_NOT_REGISTERED"
ERR_MAX_CONNECTIONS_REACHED == "ERR_MAX_CONNECTIONS_REACHED"
ERR_INVALID_NAME_SIZE == "ERR_INVALID_NAME_SIZE"
ERR_NAME_CONTAINS_NUL == "ERR_NAME_CONTAINS_NUL"
ERR_ALREADY_REGISTERED == "ERR_ALREADY_REGISTERED"
Kernel_ERR_MAX_CONNECTIONS_REACHED == "ERR_MAX_CONNECTIONS_REACHED"
Kernel_ERR_OTHER == "Kernel::ERR_OTHER"

----------------------------------------------------------------------------
(* Inputs *)

Rep(b, n) == [i \in 1..n |-> b]

HasNul(name) == \E i \in 1..Len(name) : name[i] = NUL

\* lengths around the two limits of the size check, and the longest names
NameLens == {0, 1, MaxServiceNameLen} \cup (MaxServiceNameLen + 1)..MaxNameLen

PlainNames == {Rep(102, n) : n \in NameLens}

\* names with an embedded NUL, of lengths 1, 3, 8, 9, ...
NulNames == {<<NUL>>, <<102, NUL, 102>>}
            \cup {<<102, NUL>> \o Rep(102, n - 2) : n \in NameLens \ {0, 1}}

Names == PlainNames \cup NulNames \cup {SM_NAME}

Pad(name) == name \o Rep(NUL, NameBufSize - Len(name))

\* the name field of a GetService request
NameBufs == {Pad(n) : n \in {m \in Names : Len(m) <= NameBufSize}}

\* the max_sessions passed to RegisterService: no session at all, or the most
SessionLimits == {0, MaxSessions}

Threads == {1, 2}

----------------------------------------------------------------------------
(* Kernel objects *)

ServerPort(i) == <<"ServerPort", i>>
ClientPort(i) == <<"ClientPort", i>>
ClientSession(i) == <<"ClientSession", i>>

\* ResultVal<T>: a code, and the value when the code is success
Ok(obj) == [code |-> RESULT_SUCCESS, val |-> <<obj>>]
Err(code) == [code |-> code, val |-> <<>>]
Succeeded(r) == r.code = RESULT_SUCCESS

\* Kernel::ServerPort::CreatePortPair(max_sessions, name): the new pair is
\* the next one in creation order
CreatePortPair(ps, max_sessions, name) ==
    Append(ps, [name |-> name, max_sessions |-> max_sessions, active_sessions |-> 0])

\* Kernel::ClientPort::Connect: the results the port can give
ConnectResults(ps, i, faults) ==
    (IF ps[i].active_sessions >= ps[i].max_sessions
       THEN {Err(Kernel_ERR_MAX_CONNECTIONS_REACHED)}
       ELSE {Ok(ClientSession(i))})
    \cup (IF faults THEN {Err(Kernel_ERR_OTHER)} ELSE {})

\* the ports after Connect has given result r on port i
AfterConnect(ps, i, r) ==
    IF Succeeded(r)
      THEN [ps EXCEPT ![i].active_sessions = @ + 1]
      ELSE ps

----------------------------------------------------------------------------
(* ServiceManager *)

\* the size check written with >= for >
ValidateServiceName_OffByOne(name) ==
    IF Len(name) <= 0 \/ Len(name) >= MaxServiceNameLen
      THEN ERR_INVALID_NAME_SIZE
      ELSE IF HasNul(name)
             THEN ERR_NAME_CONTAINS_NUL
             ELSE RESULT_SUCCESS

ValidateServiceName(name) ==
    IF Len(name) <= 0 \/ Len(name) > MaxServiceNameLen
      THEN ERR_INVALID_NAME_SIZE
      ELSE IF HasNul(name)
             THEN ERR_NAME_CONTAINS_NUL
             ELSE RESULT_SUCCESS

\* the presence check left out
Find_Never(map, name) == FALSE

\* registered_services.find(name) != registered_services.end()
Find(map, name) == name \in DOMAIN map

\* the entry stored under a name already moved from, that is the empty name
Emplace_MovedName(map, name, i) ==
    IF <<>> \in DOMAIN map
      THEN map
      ELSE [n \in DOMAIN map \cup {<<>>} |-> IF n = <<>> THEN i ELSE map[n]]

\* registered_services.emplace(name, client_port): a present key is kept
Emplace(map, name, i) ==
    IF name \in DOMAIN map
      THEN map
      ELSE [n \in DOMAIN map \cup {name} |-> IF n = name THEN i ELSE map[n]]

\* an absent name reported with the code of the registration path
GetServicePortResult_WrongCode(map, name) ==
    IF ValidateServiceName(name) # RESULT_SUCCESS
      THEN Err(ValidateServiceName(name))
      ELSE IF ~Find(map, name)
             THEN Err(ERR_ALREADY_REGISTERED)
             ELSE Ok(ClientPort(map[name]))

\* ServiceManager::GetServicePort, as a function of the registry
GetServicePortResult(map, name) ==
    IF ValidateServiceName(name) # RESULT_SUCCESS
      THEN Err(ValidateServiceName(name))
      ELSE IF ~Find(map, name)
             THEN Err(ERR_SERVICE_NOT_REGISTERED)
             ELSE Ok(ClientPort(map[name]))

\* where a call stands in a caller's retry against a full port: GetService
\* refused it at the session limit and handed it the client port ("Refused"),
\* next a session of that port was released ("Released"), next the name was
\* asked for again ("Retried"); "None" for every other call
RetryStage(op, name, r) ==
    IF op = "GetService" /\ r.code = ERR_MAX_CONNECTIONS_REACHED /\ r.val # <<>>
      THEN "Refused"
      ELSE IF /\ op = "CloseSession"
              /\ last.retry = "Refused"
              /\ last.val = <<ClientPort(r.val[1][2])>>
             THEN "Released"
             ELSE IF /\ op \in {"GetService", "ConnectToService"}
                     /\ last.retry = "Released"
                     /\ last.name = name
                    THEN "Retried"
                    ELSE "None"

\* a completed call: the operation, its arguments, the code and objects it
\* gave, and its stage in a retry
Call(op, name, max_sessions, r) ==
    [op |-> op, name |-> name, max_sessions |-> max_sessions, buf |-> <<>>,
     code |-> r.code, val |-> r.val, retry |-> RetryStage(op, name, r)]

\* a registration that assigns the entry whether or not the name is present
RegisterService_Reassigns(name, max_sessions) ==
    /\ ~aborted
    /\ IF ValidateServiceName(name) # RESULT_SUCCESS
         THEN /\ last' = Call("RegisterService", name, max_sessions,
                              Err(ValidateServiceName(name)))
              /\ UNCHANGED <<registered_services, ports, acceptors>>
         ELSE /\ ports' = CreatePortPair(ports, max_sessions, name)
              /\ registered_services' =
                     [n \in DOMAIN registered_services \cup {name} |->
                        IF n = name THEN Len(ports') ELSE registered_services[n]]
              /\ last' = Call("RegisterService", name, max_sessions,
                              Ok(ServerPort(Len(ports'))))
              /\ acceptors' = acceptors \cup {Len(ports')}
    /\ UNCHANGED <<sm_interface, controller_interface, sm_created, aborted, port_faults>>
    /\ UNCHANGED thread_vars

\* a registration that makes the port pair before it checks the name
RegisterService_PairBeforeCheck(name, max_sessions) ==
    /\ ~aborted
    /\ ports' = CreatePortPair(ports, max_sessions, name)
    /\ IF ValidateServiceName(name) # RESULT_SUCCESS
         THEN /\ last' = Call("RegisterService", name, max_sessions,
                              Err(ValidateServiceName(name)))
              /\ UNCHANGED <<registered_services, acceptors>>
         ELSE IF Find(registered_services, name)
                THEN /\ last' = Call("RegisterService", name, max_sessions,
                                     Err(ERR_ALREADY_REGISTERED))
                     /\ UNCHANGED <<registered_services, acceptors>>
                ELSE /\ registered_services' =
                            Emplace(registered_services, name, Len(ports'))
                     /\ last' = Call("RegisterService", name, max_sessions,
                                     Ok(ServerPort(Len(ports'))))
                     /\ acceptors' = acceptors \cup {Len(ports')}
    /\ UNCHANGED <<sm_interface, controller_interface, sm_created, aborted, port_faults>>
    /\ UNCHANGED thread_vars

RegisterService(name, max_sessions) ==
    /\ ~aborted
    /\ IF ValidateServiceName(name) # RESULT_SUCCESS
         THEN /\ last' = Call("RegisterService", name, max_sessions,
                              Err(ValidateServiceName(name)))
              /\ UNCHANGED <<registered_services, ports, acceptors>>
         ELSE IF Find(registered_services, name)
                THEN /\ last' = Call("RegisterService", name, max_sessions,
                                     Err(ERR_ALREADY_REGISTERED))
                     /\ UNCHANGED <<registered_services, ports, acceptors>>
                ELSE /\ ports' = CreatePortPair(ports, max_sessions, name)
                     /\ registered_services' =
                            Emplace(registered_services, name, Len(ports'))
                     /\ last' = Call("RegisterService", name, max_sessions,
                                     Ok(ServerPort(Len(ports'))))
                     /\ acceptors' = acceptors \cup {Len(ports')}
    /\ UNCHANGED <<sm_interface, controller_interface, sm_created, aborted, port_faults>>
    /\ UNCHANGED thread_vars

GetServicePort(name) ==
    /\ ~aborted
    /\ last' = Call("GetServicePort", name, 0,
                    GetServicePortResult(registered_services, name))
    /\ UNCHANGED registry_vars
    /\ UNCHANGED thread_vars

\* a session made on the resolved port without asking the port
ConnectToService_Unchecked(name) ==
    /\ ~aborted
    /\ LET client_port == GetServicePortResult(registered_services, name)
       IN  IF ~Succeeded(client_port)
             THEN /\ last' = Call("ConnectToService", name, 0, Err(client_port.code))
                  /\ UNCHANGED ports
             ELSE /\ ports' = [ports EXCEPT ![client_port.val[1][2]].active_sessions = @ + 1]
                  /\ last' = Call("ConnectToService", name, 0,
                                  Ok(ClientSession(client_port.val[1][2])))
    /\ UNCHANGED <<registered_services, acceptors, sm_interface, controller_interface,
                   sm_created, aborted, port_faults>>
    /\ UNCHANGED thread_vars

\* the port handed back at the session limit, as GetService does
ConnectToService_ReturnsPort(name) ==
    /\ ~aborted
    /\ LET client_port == GetServicePortResult(registered_services, name)
       IN  IF ~Succeeded(client_port)
             THEN /\ last' = Call("ConnectToService", name, 0, Err(client_port.code))
                  /\ UNCHANGED ports
             ELSE \E r \in ConnectResults(ports, client_port.val[1][2], port_faults) :
                     /\ ports' = AfterConnect(ports, client_port.val[1][2], r)
                     /\ last' = Call("ConnectToService", name, 0,
                                     IF r.code = Kernel_ERR_MAX_CONNECTIONS_REACHED
                                       THEN [code |-> r.code, val |-> client_port.val]
                                       ELSE r)
    /\ UNCHANGED <<registered_services, acceptors, sm_interface, controller_interface,
                   sm_created, aborted, port_faults>>
    /\ UNCHANGED thread_vars

ConnectToService(name) ==
    /\ ~aborted
    /\ LET client_port == GetServicePortResult(registered_services, name)
       IN  IF ~Succeeded(client_port)
             THEN /\ last' = Call("ConnectToService", name, 0, Err(client_port.code))
                  /\ UNCHANGED ports
             ELSE \E r \in ConnectResults(ports, client_port.val[1][2], port_faults) :
                     /\ ports' = AfterConnect(ports, client_port.val[1][2], r)
                     /\ last' = Call("ConnectToService", name, 0, r)
    /\ UNCHANGED <<registered_services, acceptors, sm_interface, controller_interface,
                   sm_created, aborted, port_faults>>
    /\ UNCHANGED thread_vars

\* sm->InstallAsNamedPort(): a port pair for "sm:" is made and its client
\* port is put under that name
InstallAsNamedPort(map, ps) ==
    Emplace(map, SM_NAME, Len(CreatePortPair(ps, SmMaxSessions, SM_NAME)))

\* bring-up without the assertion
InstallInterfaces_NoCheck ==
    /\ ~aborted
    /\ sm_created' = sm_created + 1
    /\ ports' = CreatePortPair(ports, SmMaxSessions, SM_NAME)
    /\ registered_services' = InstallAsNamedPort(registered_services, ports)
    /\ sm_interface' = sm_created'
    /\ controller_interface' = controller_interface + 1
    /\ last' = Call("InstallInterfaces", <<>>, 0, Err(RESULT_SUCCESS))
    /\ UNCHANGED <<acceptors, aborted, port_faults>>
    /\ UNCHANGED thread_vars

\* bring-up that leaves out sm->InstallAsNamedPort()
InstallInterfaces_NoNamedPort ==
    /\ ~aborted
    /\ IF sm_interface # 0
         THEN /\ aborted' = TRUE
              /\ last' = Call("InstallInterfaces", <<>>, 0, Err("ASSERTION_FAILED"))
              /\ UNCHANGED <<sm_interface, controller_interface, sm_created>>
         ELSE /\ sm_created' = sm_created + 1
              /\ sm_interface' = sm_created'
              /\ controller_interface' = controller_interface + 1
              /\ last' = Call("InstallInterfaces", <<>>, 0, Err(RESULT_SUCCESS))
              /\ UNCHANGED aborted
    /\ UNCHANGED <<registered_services, ports, acceptors, port_faults>>
    /\ UNCHANGED thread_vars

InstallInterfaces ==
    /\ ~aborted
    /\ IF sm_interface # 0
         THEN /\ aborted' = TRUE
              /\ last' = Call("InstallInterfaces", <<>>, 0, Err("ASSERTION_FAILED"))
              /\ UNCHANGED <<registered_services, ports, sm_interface,
                             controller_interface, sm_created>>
         ELSE /\ sm_created' = sm_created + 1
              /\ ports' = CreatePortPair(ports, SmMaxSessions, SM_NAME)
              /\ registered_services' = InstallAsNamedPort(registered_services, ports)
              /\ sm_interface' = sm_created'
              /\ controller_interface' = controller_interface + 1
              /\ last' = Call("InstallInterfaces", <<>>, 0, Err(RESULT_SUCCESS))
              /\ UNCHANGED aborted
    /\ UNCHANGED <<acceptors, port_faults>>
    /\ UNCHANGED thread_vars

\* a release that leaves the port's count of open sessions as it was
CloseSession_KeepsCount(i) ==
    /\ ~aborted
    /\ ports[i].active_sessions > 0
    /\ last' = Call("CloseSession", ports[i].name, 0, Ok(ClientSession(i)))
    /\ UNCHANGED <<registered_services, ports, acceptors, sm_interface,
                   controller_interface, sm_created, aborted, port_faults>>
    /\ UNCHANGED thread_vars

\* the holder of a session on port i releases it
CloseSession(i) ==
    /\ ~aborted
    /\ ports[i].active_sessions > 0
    /\ ports' = [ports EXCEPT ![i].active_sessions = @ - 1]
    /\ last' = Call("CloseSession", ports[i].name, 0, Ok(ClientSession(i)))
    /\ UNCHANGED <<registered_services, acceptors, sm_interface, controller_interface,
                   sm_created, aborted, port_faults>>
    /\ UNCHANGED thread_vars

----------------------------------------------------------------------------
(* SM *)

NulAt(buf) == {i \in 1..Len(buf) : buf[i] = NUL}

FirstNul(buf) == CHOOSE i \in NulAt(buf) : \A j \in NulAt(buf) : i <= j

\* the name built from the whole 8-byte field, zero bytes included
DecodedNames_WholeField(buf) == {SubSeq(buf, 1, MaxServiceNameLen)}

\* std::string name(name_buf.data()): the bytes before the first NUL; a
\* buffer with no NUL is read past its end, up to whatever NUL follows it
DecodedNames(buf) ==
    IF NulAt(buf) # {}
      THEN {SubSeq(buf, 1, FirstNul(buf) - 1)}
      ELSE {n \in Names : /\ Len(n) >= Len(buf)
                          /\ SubSeq(n, 1, Len(buf)) = buf
                          /\ ~HasNul(n)}

\* a reply that also carries a handle
InitializeReply_WithHandle == [code |-> RESULT_SUCCESS, val |-> <<ClientPort(1)>>]

\* rb.Push(RESULT_SUCCESS) on a builder of one word and no handle
InitializeReply == [code |-> RESULT_SUCCESS, val |-> <<>>]

Initialize ==
    /\ ~aborted
    /\ sm_interface # 0
    /\ last' = Call("Initialize", <<>>, 0, InitializeReply)
    /\ UNCHANGED registry_vars
    /\ UNCHANGED thread_vars

\* the session limit treated like any other connect failure: no handle
GetServiceReply_NoQuirk(client_port, session) ==
    IF ~Succeeded(client_port)
      THEN [code |-> client_port.code, val |-> <<>>]
      ELSE IF Succeeded(session)
             THEN [code |-> session.code, val |-> session.val]
             ELSE [code |-> session.code, val |-> <<>>]

\* the port pushed where the session belongs
GetServiceReply_PushesPort(client_port, session) ==
    IF ~Succeeded(client_port)
      THEN [code |-> client_port.code, val |-> <<>>]
      ELSE IF Succeeded(session)
             THEN [code |-> session.code, val |-> client_port.val]
             ELSE IF session.code = Kernel_ERR_MAX_CONNECTIONS_REACHED
                    THEN [code |-> ERR_MAX_CONNECTIONS_REACHED, val |-> client_port.val]
                    ELSE [code |-> session.code, val |-> <<>>]

\* the port handed back on every connect failure
GetServiceReply_QuirkForAll(client_port, session) ==
    IF ~Succeeded(client_port)
      THEN [code |-> client_port.code, val |-> <<>>]
      ELSE IF Succeeded(session)
             THEN [code |-> session.code, val |-> session.val]
             ELSE [code |-> session.code, val |-> client_port.val]

\* the reply GetService builds from the result of GetServicePort and, when
\* that succeeded, the result of Connect
GetServiceReply(client_port, session) ==
    IF ~Succeeded(client_port)
      THEN [code |-> client_port.code, val |-> <<>>]
      ELSE IF Succeeded(session)
             THEN [code |-> session.code, val |-> session.val]
             ELSE IF session.code = Kernel_ERR_MAX_CONNECTIONS_REACHED
                    THEN [code |-> ERR_MAX_CONNECTIONS_REACHED, val |-> client_port.val]
                    ELSE [code |-> session.code, val |-> <<>>]

GetService(name_buf) ==
    /\ ~aborted
    /\ sm_interface # 0
    /\ \E name \in DecodedNames(name_buf) :
         LET client_port == GetServicePortResult(registered_services, name)
         IN  IF ~Succeeded(client_port)
               THEN /\ last' = [Call("GetService", name, 0,
                                     GetServiceReply(client_port, client_port))
                                  EXCEPT !.buf = name_buf]
                    /\ UNCHANGED ports
               ELSE \E session \in ConnectResults(ports, client_port.val[1][2],
                                                  port_faults) :
                       /\ ports' = AfterConnect(ports, client_port.val[1][2], session)
                       /\ last' = [Call("GetService", name, 0,
                                        GetServiceReply(client_port, session))
                                     EXCEPT !.buf = name_buf]
    /\ UNCHANGED <<registered_services, acceptors, sm_interface, controller_interface,
                   sm_created, aborted, port_faults>>
    /\ UNCHANGED thread_vars

\* the command ids of SM's function table
Commands == 0..3

\* the table with GetService bound to the id of RegisterService as well
FunctionHandler_GetServiceTwice(cmd) ==
    CASE cmd = 0 -> "Initialize"
      [] cmd = 1 -> "GetService"
      [] cmd = 2 -> "GetService"
      [] cmd = 3 -> "nullptr"

\* static const FunctionInfo functions[]: the handler bound to a command id
FunctionHandler(cmd) ==
    CASE cmd = 0 -> "Initialize"
      [] cmd = 1 -> "GetService"
      [] cmd = 2 -> "nullptr"
      [] cmd = 3 -> "nullptr"

ERR_UNIMPLEMENTED == "UNIMPLEMENTED"

\* the dispatch of a command id that has no handler: an explicit
\* unimplemented outcome, and nothing else; buf holds the command id
ReportUnimplementedFunction(cmd) ==
    /\ last' = [Call("InvokeRequest", <<>>, 0, Err(ERR_UNIMPLEMENTED))
                  EXCEPT !.buf = <<cmd>>]
    /\ UNCHANGED registry_vars
    /\ UNCHANGED thread_vars

\* ServiceFramework::InvokeRequest on the SM: the handler RegisterHandlers
\* bound to the command id runs
InvokeRequest(cmd, name_buf) ==
    /\ ~aborted
    /\ sm_interface # 0
    /\ \/ FunctionHandler(cmd) = "Initialize" /\ Initialize
       \/ FunctionHandler(cmd) = "GetService" /\ GetService(name_buf)
       \/ FunctionHandler(cmd) = "nullptr" /\ ReportUnimplementedFunction(cmd)

----------------------------------------------------------------------------
(* RegisterService run by several threads, one step at a time *)

T_Validate(t, name, max_sessions) ==
    /\ ~aborted
    /\ pc[t] = "idle"
    /\ t_name' = [t_name EXCEPT ![t] = name]
    /\ t_max_sessions' = [t_max_sessions EXCEPT ![t] = max_sessions]
    /\ t_op' = [t_op EXCEPT ![t] = "RegisterService"]
    /\ IF ValidateServiceName(name) # RESULT_SUCCESS
         THEN /\ t_result' = [t_result EXCEPT ![t] = Err(ValidateServiceName(name))]
              /\ pc' = [pc EXCEPT ![t] = "done"]
         ELSE /\ pc' = [pc EXCEPT ![t] = "find"]
              /\ UNCHANGED t_result
    /\ UNCHANGED <<t_port, last>>
    /\ UNCHANGED registry_vars

T_Find(t) ==
    /\ pc[t] = "find"
    /\ IF Find(registered_services, t_name[t])
         THEN /\ t_result' = [t_result EXCEPT ![t] = Err(ERR_ALREADY_REGISTERED)]
              /\ pc' = [pc EXCEPT ![t] = "done"]
         ELSE /\ pc' = [pc EXCEPT ![t] = "create"]
              /\ UNCHANGED t_result
    /\ UNCHANGED <<t_name, t_max_sessions, t_port, t_op, last>>
    /\ UNCHANGED registry_vars

T_CreatePortPair(t) ==
    /\ pc[t] = "create"
    /\ ports' = CreatePortPair(ports, t_max_sessions[t], t_name[t])
    /\ t_port' = [t_port EXCEPT ![t] = Len(ports')]
    /\ pc' = [pc EXCEPT ![t] = "emplace"]
    /\ UNCHANGED <<t_name, t_max_sessions, t_result, t_op, last>>
    /\ UNCHANGED <<registered_services, acceptors, sm_interface, controller_interface,
                   sm_created, aborted, port_faults>>

T_Emplace(t) ==
    /\ pc[t] = "emplace"
    /\ registered_services' = Emplace(registered_services, t_name[t], t_port[t])
    /\ t_result' = [t_result EXCEPT ![t] = Ok(ServerPort(t_port[t]))]
    /\ acceptors' = acceptors \cup {t_port[t]}
    /\ pc' = [pc EXCEPT ![t] = "done"]
    /\ UNCHANGED <<t_name, t_max_sessions, t_port, t_op, last>>
    /\ UNCHANGED <<ports, sm_interface, controller_interface, sm_created,
                   aborted, port_faults>>

\* emplace is not one step: it has begun
T_EmplaceBegin(t) ==
    /\ pc[t] = "emplace"
    /\ pc' = [pc EXCEPT ![t] = "emplacing"]
    /\ UNCHANGED <<t_name, t_max_sessions, t_port, t_result, t_op, last>>
    /\ UNCHANGED registry_vars

\* emplace returns, and RegisterService with it
T_EmplaceEnd(t) ==
    /\ pc[t] = "emplacing"
    /\ registered_services' = Emplace(registered_services, t_name[t], t_port[t])
    /\ t_result' = [t_result EXCEPT ![t] = Ok(ServerPort(t_port[t]))]
    /\ acceptors' = acceptors \cup {t_port[t]}
    /\ pc' = [pc EXCEPT ![t] = "done"]
    /\ UNCHANGED <<t_name, t_max_sessions, t_port, t_op, last>>
    /\ UNCHANGED <<ports, sm_interface, controller_interface, sm_created,
                   aborted, port_faults>>

(* GetServicePort run by a thread beside them *)

R_Validate(t, name) ==
    /\ ~aborted
    /\ pc[t] = "idle"
    /\ t_name' = [t_name EXCEPT ![t] = name]
    /\ t_op' = [t_op EXCEPT ![t] = "GetServicePort"]
    /\ IF ValidateServiceName(name) # RESULT_SUCCESS
         THEN /\ t_result' = [t_result EXCEPT ![t] = Err(ValidateServiceName(name))]
              /\ pc' = [pc EXCEPT ![t] = "done"]
         ELSE /\ pc' = [pc EXCEPT ![t] = "r_find"]
              /\ UNCHANGED t_result
    /\ UNCHANGED <<t_max_sessions, t_port, last>>
    /\ UNCHANGED registry_vars

\* the threads whose emplace of this name is under way
Emplacing(name) == {u \in Threads : pc[u] = "emplacing" /\ t_name[u] = name}

\* registered_services.find(name) and the read of it->second, with no lock
\* held: beside an emplace of the same name that is under way the access is
\* a data race, and the lookup may miss the entry, see it whole, or see its
\* key before its client port is written (a null pointer, ClientPort(0))
RacingFindResults(name) ==
    {GetServicePortResult(registered_services, name)}
    \cup {GetServicePortResult(Emplace(registered_services, name, t_port[u]), name) :
             u \in Emplacing(name)}
    \cup {Ok(ClientPort(0)) : u \in Emplacing(name)}

R_Find(t) ==
    /\ pc[t] = "r_find"
    /\ \E r \in RacingFindResults(t_name[t]) :
          t_result' = [t_result EXCEPT ![t] = r]
    /\ pc' = [pc EXCEPT ![t] = "done"]
    /\ UNCHANGED <<t_name, t_max_sessions, t_port, t_op, last>>
    /\ UNCHANGED registry_vars

----------------------------------------------------------------------------

NoCall ==
    [op |-> "None", name |-> <<>>, max_sessions |-> 0, buf |-> <<>>,
     code |-> "None", val |-> <<>>, retry |-> "None"]

\* the state of a ServiceManager just constructed, over a port primitive
\* with the given fault mode
InitWith(faults) ==
    /\ registered_services = <<>>
    /\ ports = <<>>
    /\ acceptors = {}
    /\ sm_interface = 0
    /\ controller_interface = 0
    /\ sm_created = 0
    /\ aborted = FALSE
    /\ port_faults \in faults
    /\ last = NoCall
    /\ pc = [t \in Threads |-> "idle"]
    /\ t_name = [t \in Threads |-> <<>>]
    /\ t_max_sessions = [t \in Threads |-> 0]
    /\ t_port = [t \in Threads |-> 0]
    /\ t_result = [t \in Threads |-> Err("None")]
    /\ t_op = [t \in Threads |-> "None"]

Init == InitWith({FALSE})

Next ==
    \/ \E name \in Names, max_sessions \in SessionLimits :
          RegisterService(name, max_sessions)
    \/ \E name \in Names : GetServicePort(name)
    \/ \E name \in Names : ConnectToService(name)
    \/ \E i \in 1..Len(ports) : CloseSession(i)
    \/ InstallInterfaces
    \/ \E cmd \in Commands, name_buf \in NameBufs : InvokeRequest(cmd, name_buf)

Spec == Init /\ [][Next]_vars

\* the same program over a port primitive whose connect may also fail for
\* a reason other than the session limit
InitFaulty == InitWith({TRUE})

SpecFaulty == InitFaulty /\ [][Next]_vars

\* two threads, each calling RegisterService once, their steps interleaved
NextConc ==
    \/ \E t \in Threads, name \in Names, max_sessions \in SessionLimits :
          T_Validate(t, name, max_sessions)
    \/ \E t \in Threads : T_Find(t)
    \/ \E t \in Threads : T_CreatePortPair(t)
    \/ \E t \in Threads : T_Emplace(t)

SpecConc == Init /\ [][NextConc]_vars

\* RegisterService and GetServicePort called from two threads, the emplace
\* taking time
NextRace ==
    \/ \E t \in Threads, name \in Names, max_sessions \in SessionLimits :
          T_Validate(t, name, max_sessions)
    \/ \E t \in Threads : T_Find(t)
    \/ \E t \in Threads : T_CreatePortPair(t)
    \/ \E t \in Threads : T_EmplaceBegin(t)
    \/ \E t \in Threads : T_EmplaceEnd(t)
    \/ \E t \in Threads, name \in Names : R_Validate(t, name)
    \/ \E t \in Threads : R_Find(t)

SpecRace == Init /\ [][NextRace]_vars

----------------------------------------------------------------------------
(* Properties *)

\* a name of 1..8 bytes with no zero byte
ValidName(name) == Len(name) >= 1 /\ Len(name) <= 8 /\ \A i \in 1..Len(name) : name[i] # 0

\* the names under which a port pair has ever been created
EverRegistered == {ports[i].name : i \in 1..Len(ports)}

\* C1: RegisterService(N,k) of a valid name N absent from the registry
\* succeeds and returns the server port of a pair created in that call, and
\* GetServicePort(N) in the resulting state succeeds with the client port of
\* that same pair.
C1_RegisterThenResolve ==
    [][(/\ last'.op = "RegisterService"
        /\ ValidName(last'.name)
        /\ last'.name \notin DOMAIN registered_services)
       => /\ last'.code = RESULT_SUCCESS
          /\ Len(ports') = Len(ports) + 1
          /\ last'.val = <<ServerPort(Len(ports'))>>
          /\ ports'[Len(ports')].name = last'.name
          /\ ports'[Len(ports')].max_sessions = last'.max_sessions
          /\ GetServicePortResult(registered_services', last'.name)
               = [code |-> RESULT_SUCCESS, val |-> <<ClientPort(Len(ports'))>>]]_vars

\* an 8-byte name has just been registered and resolves to the paired client port
C1_Witness ==
    /\ last.op = "RegisterService"
    /\ last.code = RESULT_SUCCESS
    /\ Len(last.name) = 8
    /\ Len(ports) >= 2
    /\ last.val = <<ServerPort(Len(ports))>>
    /\ registered_services[last.name] = Len(ports)

\* C2: once RegisterService(N,k) has returned server port i, every
\* RegisterService(N,k') returns AlreadyRegistered and leaves the registry
\* as it was, and GetServicePort(N) after it still gives client port i.
C2_SecondRegisterRefused ==
    [][\A i \in acceptors :
          (last'.op = "RegisterService" /\ last'.name = ports[i].name)
          => /\ last'.code = ERR_ALREADY_REGISTERED
             /\ last'.val = <<>>
             /\ registered_services' = registered_services
             /\ GetServicePortResult(registered_services', ports[i].name)
                  = [code |-> RESULT_SUCCESS, val |-> <<ClientPort(i)>>]]_vars

\* a second registration of a registered name, with another max_sessions, was refused
C2_Witness ==
    /\ last.op = "RegisterService"
    /\ last.code = ERR_ALREADY_REGISTERED
    /\ \E i \in acceptors : /\ ports[i].name = last.name
                            /\ ports[i].max_sessions # last.max_sessions
                            /\ registered_services[last.name] = i

\* C3 as stated: GetServicePort and ConnectToService of any name never
\* registered return NotRegistered.
C3_AnyNameNotRegistered ==
    (last.op \in {"GetServicePort", "ConnectToService"} /\ last.name \notin EverRegistered)
    => last.code = ERR_SERVICE_NOT_REGISTERED

\* C3 amended: GetServicePort and ConnectToService of a valid name never
\* registered return NotRegistered and no object.
C3_ValidNameNotRegistered ==
    (/\ last.op \in {"GetServicePort", "ConnectToService"}
     /\ ValidName(last.name)
     /\ last.name \notin EverRegistered)
    => last.code = ERR_SERVICE_NOT_REGISTERED /\ last.val = <<>>

\* ConnectToService of a valid unregistered name, while other names are registered
C3_Witness ==
    /\ last.op = "ConnectToService"
    /\ ValidName(last.name)
    /\ last.name \notin EverRegistered
    /\ Len(ports) >= 2
    /\ last.code = ERR_SERVICE_NOT_REGISTERED

\* C4: RegisterService, GetServicePort and ConnectToService validate the
\* name alike: length 0 or above 8 gives InvalidNameSize, also when the
\* name holds a zero byte; length 1..8 with a zero byte gives
\* NameContainsTerminator; any other name gets neither code.
C4_NameValidation ==
    last.op \in {"RegisterService", "GetServicePort", "ConnectToService"}
    => /\ (Len(last.name) = 0 \/ Len(last.name) > 8)
            => last.code = ERR_INVALID_NAME_SIZE
       /\ (Len(last.name) \in 1..8 /\ \E i \in 1..Len(last.name) : last.name[i] = 0)
            => last.code = ERR_NAME_CONTAINS_NUL
       /\ ValidName(last.name)
            => last.code \notin {ERR_INVALID_NAME_SIZE, ERR_NAME_CONTAINS_NUL}

\* a name longer than 8 bytes that holds a zero byte was refused for its size
C4_Witness ==
    /\ last.op = "RegisterService"
    /\ Len(last.name) > 8
    /\ \E i \in 1..Len(last.name) : last.name[i] = 0
    /\ last.code = ERR_INVALID_NAME_SIZE

\* C5: GetService of a registered name whose port has max_sessions open
\* sessions replies with the session-limit code and one handle, the client
\* port stored for the name, and opens no session.
C5_GetServiceAtCapacity ==
    [][(/\ last'.op = "GetService"
        /\ ValidName(last'.name)
        /\ last'.name \in DOMAIN registered_services
        /\ ports[registered_services[last'.name]].active_sessions
             >= ports[registered_services[last'.name]].max_sessions)
       => /\ last'.code = Kernel_ERR_MAX_CONNECTIONS_REACHED
          /\ last'.val = <<ClientPort(registered_services[last'.name])>>
          /\ ports' = ports]_vars

\* GetService answered the session limit on a port whose one session is open
C5_Witness ==
    /\ last.op = "GetService"
    /\ last.code = Kernel_ERR_MAX_CONNECTIONS_REACHED
    /\ last.name \in DOMAIN registered_services
    /\ last.val = <<ClientPort(registered_services[last.name])>>
    /\ ports[registered_services[last.name]].max_sessions = 1
    /\ ports[registered_services[last.name]].active_sessions = 1

\* C6: GetService of a registered name whose port has fewer open sessions
\* than max_sessions replies success with one handle, a session of that
\* port, whose session count grows by one while every other port is unchanged.
C6_GetServiceSuccess ==
    [][(/\ last'.op = "GetService"
        /\ ValidName(last'.name)
        /\ last'.name \in DOMAIN registered_services
        /\ ports[registered_services[last'.name]].active_sessions
             < ports[registered_services[last'.name]].max_sessions)
       => /\ last'.code = RESULT_SUCCESS
          /\ last'.val = <<ClientSession(registered_services[last'.name])>>
          /\ Len(ports') = Len(ports)
          /\ \A i \in 1..Len(ports) :
                ports'[i].active_sessions =
                    IF i = registered_services[last'.name]
                      THEN ports[i].active_sessions + 1
                      ELSE ports[i].active_sessions]_vars

\* GetService has opened the one session a registered port allows
C6_Witness ==
    /\ last.op = "GetService"
    /\ last.code = RESULT_SUCCESS
    /\ last.name \in DOMAIN registered_services
    /\ last.name # SM_NAME
    /\ last.val = <<ClientSession(registered_services[last.name])>>
    /\ ports[registered_services[last.name]].active_sessions = 1

ResultCodes ==
    {RESULT_SUCCESS, ERR_SERVICE_NOT_REGISTERED, ERR_MAX_CONNECTIONS_REACHED,
     ERR_INVALID_NAME_SIZE, ERR_NAME_CONTAINS_NUL, ERR_ALREADY_REGISTERED,
     Kernel_ERR_MAX_CONNECTIONS_REACHED, Kernel_ERR_OTHER}

\* C7: every GetService reply carries a result code; a reply whose code is
\* neither success nor the session limit carries no handle; a name of
\* invalid size replies InvalidNameSize, and a valid name with no entry
\* replies NotRegistered, both without a handle.
C7_FailureRepliesCarryNoHandle ==
    last.op = "GetService"
    => /\ last.code \in ResultCodes
       /\ last.code \notin {RESULT_SUCCESS, Kernel_ERR_MAX_CONNECTIONS_REACHED}
            => last.val = <<>>
       /\ (Len(last.name) = 0 \/ Len(last.name) > 8)
            => last.code = ERR_INVALID_NAME_SIZE
       /\ (ValidName(last.name) /\ last.name \notin DOMAIN registered_services)
            => last.code = ERR_SERVICE_NOT_REGISTERED
       /\ (ValidName(last.name) /\ last.name \in DOMAIN registered_services)
            => last.code \in {RESULT_SUCCESS, Kernel_ERR_MAX_CONNECTIONS_REACHED,
                              Kernel_ERR_OTHER}

\* GetService of a name with nothing registered under it replied
\* NotRegistered without a handle
C7_Witness ==
    /\ last.op = "GetService"
    /\ last.name \notin EverRegistered
    /\ last.code = ERR_SERVICE_NOT_REGISTERED
    /\ last.val = <<>>

\* C8: Initialize replies success with no handle and changes neither the
\* registry nor any port.
C8_InitializeSucceeds ==
    [][last'.op = "Initialize"
       => /\ last'.code = RESULT_SUCCESS
          /\ last'.val = <<>>
          /\ registered_services' = registered_services
          /\ ports' = ports]_vars

\* Initialize answered while a registered port was exhausted
C8_Witness ==
    /\ last.op = "Initialize"
    /\ last.code = RESULT_SUCCESS
    /\ \E i \in acceptors : /\ ports[i].max_sessions = 1
                            /\ ports[i].active_sessions = 1

\* C9: after InstallInterfaces has completed once, a later InstallInterfaces
\* takes the assertion path: no second SM, the same Controller, the registry
\* untouched.
C9_SecondInstallAborts ==
    [][(sm_created >= 1 /\ last'.op = "InstallInterfaces")
       => /\ aborted'
          /\ sm_created' = 1
          /\ sm_interface' = sm_interface
          /\ controller_interface' = controller_interface
          /\ registered_services' = registered_services
          /\ ports' = ports]_vars

\* the second InstallInterfaces, after registrations, hit the assertion
C9_Witness ==
    /\ aborted
    /\ last.op = "InstallInterfaces"
    /\ acceptors # {}
    /\ sm_created = 1

\* C10: of two concurrent RegisterService calls for the same name, one that
\* succeeds leaves the other with AlreadyRegistered, and its server port is
\* paired with the client port stored in the registry.
C10_OneConcurrentRegisterWins ==
    \A t1 \in Threads, t2 \in Threads :
       (/\ t1 # t2
        /\ pc[t1] = "done"
        /\ pc[t2] = "done"
        /\ t_name[t1] = t_name[t2]
        /\ t_result[t1].code = RESULT_SUCCESS)
       => /\ t_result[t2].code = ERR_ALREADY_REGISTERED
          /\ t_result[t1].val = <<ServerPort(registered_services[t_name[t1]])>>

\* C11: a GetServicePort(N) running beside a RegisterService(N,k) returns
\* NotRegistered or the client port of a pair created for N, never an entry
\* that is only partly inserted.
C11_ResolveSeesWholeEntry ==
    \A t \in Threads :
       (/\ pc[t] = "done"
        /\ t_op[t] = "GetServicePort"
        /\ ValidName(t_name[t]))
       => \/ t_result[t] = [code |-> ERR_SERVICE_NOT_REGISTERED, val |-> <<>>]
          \/ \E i \in 1..Len(ports) :
                /\ ports[i].name = t_name[t]
                /\ t_result[t] = [code |-> RESULT_SUCCESS, val |-> <<ClientPort(i)>>]

\* C12: a request with command id 2 (RegisterService) or 3
\* (UnregisterService) gets the unimplemented outcome with no handle, and
\* changes no registry entry, no port and no acceptor.
C12_ReservedCommandsUnimplemented ==
    [][\A cmd \in {2, 3}, name_buf \in NameBufs :
          InvokeRequest(cmd, name_buf)
          => /\ last'.op = "InvokeRequest"
             /\ last'.buf = <<cmd>>
             /\ last'.code = ERR_UNIMPLEMENTED
             /\ last'.val = <<>>
             /\ registered_services' = registered_services
             /\ ports' = ports
             /\ acceptors' = acceptors]_vars

\* command id 2 was refused while the registry held registered services
C12_Witness ==
    /\ last.op = "InvokeRequest"
    /\ last.buf = <<2>>
    /\ last.code = ERR_UNIMPLEMENTED
    /\ acceptors # {}
    /\ Cardinality(DOMAIN registered_services) >= 2

\* the first 8 bytes of a name field, cut at the first zero byte among them
WireName(buf) ==
    LET field == SubSeq(buf, 1, 8)
        zeros == {i \in 1..8 : field[i] = 0}
    IN  IF zeros = {}
          THEN field
          ELSE SubSeq(field, 1, (CHOOSE i \in zeros : \A j \in zeros : i <= j) - 1)

\* C13: the name GetService hands to the registry is the 8-byte name field
\* cut at its first zero byte, so it has at most 8 bytes; a field of 8
\* non-zero bytes gives that 8-byte name, which resolves when registered.
C13_DecodedNameFitsEightBytes ==
    last.op = "GetService"
    => /\ Len(last.name) <= 8
       /\ last.name = WireName(last.buf)
       /\ (Len(WireName(last.buf)) = 8 /\ WireName(last.buf) \in DOMAIN registered_services)
            => last.code \in {RESULT_SUCCESS, ERR_MAX_CONNECTIONS_REACHED}

C15_EntriesAreStable ==
    [][/\ \A i \in acceptors', j \in acceptors' :
             ports'[i].name = ports'[j].name => i = j
       /\ \A name \in DOMAIN registered_services :
             /\ name \in DOMAIN registered_services'
             /\ registered_services'[name] = registered_services[name]
       /\ \A name \in Names :
             GetServicePortResult(registered_services, name).code = RESULT_SUCCESS
             => GetServicePortResult(registered_services', name)
                  = GetServicePortResult(registered_services, name)
       /\ (last'.op = "GetServicePort" /\ last'.code = RESULT_SUCCESS)
             => last'.val = <<ClientPort(registered_services[last'.name])>>]_vars

\* GetServicePort resolved a name in a registry of three entries, after a
\* session was opened
C15_Witness ==
    /\ last.op = "GetServicePort"
    /\ last.code = RESULT_SUCCESS
    /\ Cardinality(DOMAIN registered_services) = 3
    /\ last.val = <<ClientPort(registered_services[last.name])>>
    /\ \E i \in 1..Len(ports) : ports[i].active_sessions > 0

\* C16: no port ever has more open sessions than its max_sessions, and a
\* ConnectToService or GetService that finds max_sessions sessions open on
\* the port of its name ends at once with the session-limit code, opening
\* no session; with max_sessions = 0 every attempt ends so.
C16_AdmissionIsBounded ==
    [][/\ \A i \in 1..Len(ports') :
             ports'[i].active_sessions <= ports'[i].max_sessions
       /\ (/\ last'.op \in {"ConnectToService", "GetService"}
           /\ ValidName(last'.name)
           /\ last'.name \in DOMAIN registered_services
           /\ ports[registered_services[last'.name]].active_sessions
                = ports[registered_services[last'.name]].max_sessions)
          => /\ last'.code = Kernel_ERR_MAX_CONNECTIONS_REACHED
             /\ ClientSession(registered_services[last'.name])
                  \notin {last'.val[n] : n \in 1..Len(last'.val)}
             /\ ports' = ports]_vars

\* ConnectToService was refused on a port of max_sessions 0 while another
\* port had its one session open
C16_Witness ==
    /\ last.op = "ConnectToService"
    /\ last.code = Kernel_ERR_MAX_CONNECTIONS_REACHED
    /\ last.name \in DOMAIN registered_services
    /\ ports[registered_services[last.name]].max_sessions = 0
    /\ \E i \in acceptors : ports[i].max_sessions = 1 /\ ports[i].active_sessions = 1

\* C17: ConnectToService(name) gives what GetServicePort(name) followed by
\* a connect on its port gives: when the lookup fails, the lookup's code, no
\* object and no change of any port; otherwise exactly one of the connect's
\* results, a session with the port's count one higher, or the connect's
\* error with no object and the ports unchanged.
C17_ConnectIsResolveThenConnect ==
    [][last'.op = "ConnectToService"
       => IF ~ValidName(last'.name) \/ last'.name \notin DOMAIN registered_services
            THEN /\ last'.code = GetServicePortResult(registered_services, last'.name).code
                 /\ last'.code \in {ERR_INVALID_NAME_SIZE, ERR_NAME_CONTAINS_NUL,
                                     ERR_SERVICE_NOT_REGISTERED}
                 /\ last'.val = <<>>
                 /\ ports' = ports
            ELSE /\ [code |-> last'.code, val |-> last'.val]
                      \in ConnectResults(ports, registered_services[last'.name], port_faults)
                 /\ IF last'.code = RESULT_SUCCESS
                      THEN /\ last'.val = <<ClientSession(registered_services[last'.name])>>
                           /\ ports' = [ports EXCEPT
                                  ![registered_services[last'.name]].active_sessions = @ + 1]
                      ELSE /\ last'.val = <<>>
                           /\ ports' = ports]_vars

\* ConnectToService was refused at the session limit and handed back nothing
C17_Witness ==
    /\ last.op = "ConnectToService"
    /\ last.code = Kernel_ERR_MAX_CONNECTIONS_REACHED
    /\ last.val = <<>>
    /\ last.name \in DOMAIN registered_services
    /\ ports[registered_services[last.name]].max_sessions = 1
    /\ ports[registered_services[last.name]].active_sessions = 1

----------------------------------------------------------------------------
\* C18: retry after release.  When GetService refused a name at the session
\* limit and handed out the client port, and next the holder of a session of
\* that port released it, the next GetService for the name, or the next
\* connect to it, succeeds with a new session of that port and the port counts
\* one more open session: the limit is on the sessions open at one time.
C18_RetryAfterRelease ==
    [][(/\ last.retry = "Released"
        /\ last'.op \in {"GetService", "ConnectToService"}
        /\ last'.name = last.name)
       => LET p == last.val[1][2]
          IN  /\ last'.code = RESULT_SUCCESS
              /\ last'.val = <<ClientSession(p)>>
              /\ last'.retry = "Retried"
              /\ ports'[p].active_sessions = ports[p].active_sessions + 1
              /\ ports'[p].active_sessions <= ports[p].max_sessions]_vars

\* a GetService that was refused at the limit succeeded after a release, on a
\* port that has by then admitted more connects than its limit
C18_Witness ==
    /\ last.op = "GetService"
    /\ last.retry = "Retried"
    /\ last.code = RESULT_SUCCESS
    /\ \E p \in 1..Len(ports) :
          /\ last.val = <<ClientSession(p)>>
          /\ ports[p].max_sessions >= 1
          /\ ports[p].active_sessions = ports[p].max_sessions

----------------------------------------------------------------------------
\* the step adds to the map the entry of this name and nothing else
AddsOnlyEntry(name) ==
    /\ name \notin DOMAIN registered_services
    /\ DOMAIN registered_services' = DOMAIN registered_services \cup {name}
    /\ \A n \in DOMAIN registered_services :
          registered_services'[n] = registered_services[n]

\* a RegisterService that fails makes no port pair and leaves the map alone
FailedRegisterChangesNothing ==
    (last'.op = "RegisterService" /\ last'.code # RESULT_SUCCESS)
    => UNCHANGED <<registered_services, ports, acceptors>>

\* the lookups and the two commands leave the map alone
LookupsKeepMap ==
    last'.op \in {"GetServicePort", "ConnectToService", "Initialize", "GetService"}
    => UNCHANGED registered_services

----------------------------------------------------------------------------
\* the result codes a GetService reply can carry
GetServiceCodes ==
    {RESULT_SUCCESS, ERR_INVALID_NAME_SIZE, ERR_SERVICE_NOT_REGISTERED,
     ERR_MAX_CONNECTIONS_REACHED, Kernel_ERR_OTHER}

\* C20: the name GetService decodes from a name buffer holds no zero byte,
\* so no GetService reply carries NameContainsTerminator: its code is success,
\* InvalidNameSize, NotRegistered or an error of the port's connect; a
\* buffer of zero bytes only decodes to the empty name and is answered with
\* InvalidNameSize and no handle.
C20_NoTerminatorOverTheWire ==
    last.op = "GetService"
    => /\ ~HasNul(last.name)
       /\ last.code # ERR_NAME_CONTAINS_NUL
       /\ last.code \in GetServiceCodes
       /\ (last.buf = Rep(NUL, NameBufSize))
            => /\ last.name = <<>>
               /\ last.code = ERR_INVALID_NAME_SIZE
               /\ last.val = <<>>

\* a buffer with a zero byte between other bytes was answered for the name
\* before that zero byte, which is registered
C20_Witness ==
    /\ last.op = "GetService"
    /\ \E i, j \in 1..NameBufSize : i < j /\ last.buf[i] = NUL /\ last.buf[j] # NUL
    /\ last.name = <<102>>
    /\ last.code = RESULT_SUCCESS

====
